---- MODULE Spec2Model ----
(***************************************************************************)
(* Model of TrafficAccidentInjuryPrediction.ipynb: the notebook's globals  *)
(* are the state, each code cell is one action, and the library calls the  *)
(* cells make (pandas, scikit-learn, joblib) are operators that compute     *)
(* what the call computes on small tables.                                  *)
(*                                                                          *)
(* Numbers.  A numeric cell is a record [num, dsq] standing for the real    *)
(* num / sqrt(dsq); an integer x read from the file is [num |-> x,          *)
(* dsq |-> 1] and a missing value (NaN) has dsq = 0.  Standard scaling      *)
(* maps a column of such values to values of the same form, so the model    *)
(* computes it exactly.                                                     *)
(***************************************************************************)
EXTENDS Integers, Sequences, FiniteSets, TLC

VARIABLES
    csv,                    \* ./data/traffic_accidents.csv, the file on disk
    pc,                     \* position in CellOrder of the next cell to run
    history,                \* the kernel's log of executed cells (In[1], In[2], ...)
    calls,                  \* the log of the fit / predict / cross_val_score / dump calls made
    accidentsData,
    num_pipeline,
    cat_pipeline,
    preprocessing,
    accidentsData_prepared,
    train_set,
    test_set,
    accidentsTrain,
    accidentsTrain_labels,
    lin_reg,
    predictions,
    lin_rmse,
    tree_reg,
    tree_rmse,
    tree_rmses,
    full_pipeline,
    predictions_rf,
    rmse_rf,
    pkl                     \* Traffic_Accident_Injury_Predictor_Model.pkl on disk

vars == <<csv, pc, history, calls, accidentsData, num_pipeline, cat_pipeline,
          preprocessing, accidentsData_prepared, train_set, test_set,
          accidentsTrain, accidentsTrain_labels, lin_reg, predictions,
          lin_rmse, tree_reg, tree_rmse, tree_rmses, full_pipeline,
          predictions_rf, rmse_rf, pkl>>

----------------------------------------------------------------------------
(* Bounds of the model.                                                     *)

\* Largest number of rows of the CSV file.
MaxRows == 14

\* Largest per-row error (in label units) of a fitted estimator.
MaxResidual == 1

----------------------------------------------------------------------------
(* Generic helpers.                                                         *)

Range(s) == {s[i] : i \in DOMAIN s}

Min(a, b) == IF a < b THEN a ELSE b

RECURSIVE SumSeq(_)
SumSeq(s) == IF s = <<>> THEN 0 ELSE Head(s) + SumSeq(Tail(s))

\* Position of x in the sequence s (0 when absent).
IndexOf(s, x) == IF \E i \in DOMAIN s : s[i] = x
                 THEN CHOOSE i \in DOMAIN s : s[i] = x /\ \A j \in 1..(i-1) : s[j] # x
                 ELSE 0

----------------------------------------------------------------------------
(* Cell values.                                                             *)

Num(x) == [num |-> x, dsq |-> 1]
NaN == [num |-> 0, dsq |-> 0]
IsNaN(v) == v.dsq = 0

\* A missing entry of a text column.
NA == "<NA>"

\* a and b are the same value: both missing, or the same real number.
SameNumber(a, b) ==
    IF IsNaN(a) \/ IsNaN(b) THEN IsNaN(a) /\ IsNaN(b)
    ELSE /\ a.num * a.num * b.dsq = b.num * b.num * a.dsq
         /\ (a.num > 0) = (b.num > 0)

----------------------------------------------------------------------------
(* The CSV file.  Its 24 columns are the ones accidentsData.info() lists;   *)
(* a text column's vocabulary is kept in Python's sort order.               *)

CsvColumns ==
    << "crash_date", "traffic_control_device", "weather_condition",
       "lighting_condition", "first_crash_type", "trafficway_type",
       "alignment", "roadway_surface_cond", "road_defect", "crash_type",
       "intersection_related_i", "damage", "prim_contributory_cause",
       "num_units", "most_severe_injury", "injuries_total", "injuries_fatal",
       "injuries_incapacitating", "injuries_non_incapacitating",
       "injuries_reported_not_evident", "injuries_no_indication",
       "crash_hour", "crash_day_of_week", "crash_month" >>

\* How the file writes a column: whole numbers, decimals or text.
CsvKind(c) ==
    IF c \in {"num_units", "crash_hour", "crash_day_of_week", "crash_month"}
    THEN "int"
    ELSE IF c \in {"injuries_total", "injuries_fatal", "injuries_incapacitating",
                   "injuries_non_incapacitating", "injuries_reported_not_evident",
                   "injuries_no_indication"}
    THEN "float"
    ELSE "str"

Vocabulary(c) ==
    CASE c = "traffic_control_device" -> <<"NO CONTROLS", "STOP SIGN/FLASHER", "TRAFFIC SIGNAL">>
      [] c = "weather_condition" -> <<"CLEAR", "RAIN", "SNOW">>
      [] c = "lighting_condition" -> <<"DARKNESS", "DAYLIGHT">>
      [] c = "first_crash_type" -> <<"ANGLE", "REAR END", "TURNING">>
      [] c = "trafficway_type" -> <<"DIVIDED - W/MEDIAN (NOT RAISED)", "NOT DIVIDED">>
      [] c = "alignment" -> <<"STRAIGHT AND LEVEL">>
      [] c = "roadway_surface_cond" -> <<"DRY", "WET">>
      [] c = "road_defect" -> <<"NO DEFECTS", "UNKNOWN">>
      [] c = "crash_type" -> <<"INJURY AND / OR TOW DUE TO CRASH", "NO INJURY / DRIVE AWAY">>
      [] c = "intersection_related_i" -> <<"N", "Y">>
      [] c = "damage" -> <<"$501 - $1,500", "OVER $1,500">>
      [] c = "prim_contributory_cause" -> <<"FAILING TO YIELD RIGHT-OF-WAY", "UNABLE TO DETERMINE">>
      [] c = "most_severe_injury" -> <<"FATAL", "NO INDICATION OF INJURY", "NONINCAPACITATING INJURY">>
      [] OTHER -> <<>>

\* The kinds of defective cell a file may hold.
DefectKinds == {"nan_units", "nan_total", "na_weather", "bad_date"}

\* Row i (0-based) of a well-formed file.
CsvCell(c, i) ==
    LET fatal == IF i % 7 = 6 THEN 1 ELSE 0
        nonincap == i % 3
        notevident == IF i % 4 = 3 THEN 1 ELSE 0
        total == fatal + nonincap + notevident
        voc == Vocabulary(c)
    IN CASE c = "crash_date" -> [mm |-> 1 + ((5 * i) % 12), dd |-> 1 + ((3 * i) % 28),
                                 yyyy |-> 2018 + (i % 6)]
         [] c = "num_units" -> Num(IF i % 5 = 0 THEN 3 ELSE 2)
         [] c = "injuries_total" -> Num(total)
         [] c = "injuries_fatal" -> Num(fatal)
         [] c = "injuries_incapacitating" -> Num(0)
         [] c = "injuries_non_incapacitating" -> Num(nonincap)
         [] c = "injuries_reported_not_evident" -> Num(notevident)
         [] c = "injuries_no_indication" -> Num(2 - (i % 2))
         [] c = "crash_hour" -> Num((7 * i) % 24)
         [] c = "crash_day_of_week" -> Num(1 + (i % 7))
         [] c = "crash_month" -> Num(1 + ((5 * i) % 12))
         [] c = "most_severe_injury" ->
                IF fatal = 1 THEN voc[1] ELSE IF total = 0 THEN voc[2] ELSE voc[3]
         [] OTHER -> voc[1 + ((i \div (1 + (IndexOf(CsvColumns, c) % 3))) % Len(voc))]

\* The cell of column c that defect kind k spoils (the column untouched otherwise).
Spoil(c, k, v) ==
    CASE k = "nan_units" /\ c = "num_units" -> NaN
      [] k = "nan_total" /\ c = "injuries_total" -> NaN
      [] k = "na_weather" /\ c = "weather_condition" -> NA
      [] k = "bad_date" /\ c = "crash_date" -> [mm |-> 13, dd |-> v.dd, yyyy |-> v.yyyy]
      [] OTHER -> v

\* A file of n rows with the defects ds (a set of [row, kind]).
CsvFile(n, ds) ==
    [ cols |-> CsvColumns,
      n |-> n,
      data |-> [c \in Range(CsvColumns) |->
                  [p \in 1..n |->
                     IF \E d \in ds : d.row = p /\ Spoil(c, d.kind, CsvCell(c, p - 1)) # CsvCell(c, p - 1)
                     THEN LET d == CHOOSE e \in ds : e.row = p /\ Spoil(c, e.kind, CsvCell(c, p - 1)) # CsvCell(c, p - 1)
                          IN Spoil(c, d.kind, CsvCell(c, p - 1))
                     ELSE CsvCell(c, p - 1)]] ]

----------------------------------------------------------------------------
(* Tables (pandas DataFrame): column names in order, a dtype per column,   *)
(* the row labels (index) and the values column by column.                  *)

NoTable == [cols |-> <<>>, dtype |-> <<>>, index |-> <<>>, data |-> <<>>]

NRows(t) == Len(t.index)

IsNumberDtype(d) == d \in {"int64", "int32", "float64"}

\* DataFrame.drop(columns=...): the table without the columns in names.
DropColumns(t, names) ==
    LET keep == SelectSeq(t.cols, LAMBDA c : c \notin names)
    IN [cols |-> keep,
        dtype |-> [c \in Range(keep) |-> t.dtype[c]],
        index |-> t.index,
        data |-> [c \in Range(keep) |-> t.data[c]]]

\* t[name] = values: the column replaced in place, or appended when new.
SetColumn(t, name, dt, values) ==
    LET cols2 == IF name \in Range(t.cols) THEN t.cols ELSE Append(t.cols, name)
    IN [cols |-> cols2,
        dtype |-> [c \in Range(cols2) |-> IF c = name THEN dt ELSE t.dtype[c]],
        index |-> t.index,
        data |-> [c \in Range(cols2) |-> IF c = name THEN values ELSE t.data[c]]]

\* Positional row selection (take): rows at positions ps, in that order.
TakeRows(t, ps) ==
    [cols |-> t.cols,
     dtype |-> t.dtype,
     index |-> [k \in DOMAIN ps |-> t.index[ps[k]]],
     data |-> [c \in Range(t.cols) |-> [k \in DOMAIN ps |-> t.data[c][ps[k]]]]]

\* pd.read_csv: RangeIndex 0..n-1; a whole-number column with a hole is float64.
loadData(file) ==
    [cols |-> file.cols,
     dtype |-> [c \in Range(file.cols) |->
                  CASE CsvKind(c) = "str" -> "object"
                    [] CsvKind(c) = "float" -> "float64"
                    [] OTHER -> IF \E p \in 1..file.n : IsNaN(file.data[c][p])
                                THEN "float64" ELSE "int64"],
     index |-> [p \in 1..file.n |-> p - 1],
     data |-> file.data]

----------------------------------------------------------------------------
(* Date transformation (pd.to_datetime(errors='coerce') and the .dt        *)
(* accessors).  A date text is a record [mm, dd, yyyy]; parsing validates   *)
(* it and yields a timestamp, or NaT when the text is no date.              *)

NaT == [year |-> 0, month |-> 0, day |-> 0, nat |-> TRUE]

IsLeap(y) == (y % 4 = 0 /\ y % 100 # 0) \/ y % 400 = 0

DaysInMonth(y, m) ==
    IF m = 2 THEN (IF IsLeap(y) THEN 29 ELSE 28)
    ELSE IF m \in {4, 6, 9, 11} THEN 30 ELSE 31

to_datetime(text) ==
    IF /\ text.mm \in 1..12
       /\ text.dd \in 1..DaysInMonth(text.yyyy, text.mm)
    THEN [year |-> text.yyyy, month |-> text.mm, day |-> text.dd, nat |-> FALSE]
    ELSE NaT

\* Timestamp.dayofweek: Monday = 0 ... Sunday = 6.
DayOfWeek(ts) ==
    LET t == <<0, 3, 2, 5, 0, 3, 5, 1, 4, 6, 2, 4>>
        y == IF ts.month < 3 THEN ts.year - 1 ELSE ts.year
        sunday0 == (y + (y \div 4) - (y \div 100) + (y \div 400) + t[ts.month] + ts.day) % 7
    IN (sunday0 + 6) % 7

\* Series.dt.<field>: int32 when every row is a date, float64 with NaN otherwise.
DtDtype(dates) == IF \E i \in DOMAIN dates : dates[i].nat THEN "float64" ELSE "int32"

DtYear(dates) == [i \in DOMAIN dates |-> IF dates[i].nat THEN NaN ELSE Num(dates[i].year)]

DtMonth(dates) == [i \in DOMAIN dates |-> IF dates[i].nat THEN NaN ELSE Num(dates[i].month)]

DtDayOfWeek(dates) == [i \in DOMAIN dates |-> IF dates[i].nat THEN NaN ELSE Num(DayOfWeek(dates[i]))]

\* The columns the notebook drops after the date transformation.
DroppedColumns == {"crash_date", "injuries_fatal", "injuries_incapacitating",
                   "injuries_non_incapacitating", "injuries_reported_not_evident"}

\* Cell 3 as a function of the loaded table.
DateTransformAndDrop(t) ==
    LET dates == [i \in DOMAIN t.data["crash_date"] |-> to_datetime(t.data["crash_date"][i])]
        t1 == SetColumn(t, "crash_date", "datetime64[ns]", dates)
        t2 == SetColumn(t1, "crash_year", DtDtype(dates), DtYear(dates))
        t3 == SetColumn(t2, "crash_month", DtDtype(dates), DtMonth(dates))
        t4 == SetColumn(t3, "crash_day_of_week", DtDtype(dates), DtDayOfWeek(dates))
    IN DropColumns(t4, DroppedColumns)

----------------------------------------------------------------------------
(* The two column pipelines (SimpleImputer + StandardScaler, SimpleImputer  *)
(* + OneHotEncoder) on one column of values.                                *)

\* The k-th smallest (1-based) of a non-empty sequence of integers.
Kth(ns, k) ==
    CHOOSE x \in Range(ns) :
        /\ Cardinality({i \in DOMAIN ns : ns[i] < x}) < k
        /\ Cardinality({i \in DOMAIN ns : ns[i] <= x}) >= k

\* SimpleImputer(strategy='median').statistics_ of a column: NaN when it is all NaN.
Median(vals) ==
    LET xs == SelectSeq(vals, LAMBDA v : ~IsNaN(v))
        m == Len(xs)
        ns == [i \in DOMAIN xs |-> xs[i].num]
    IN IF m = 0 THEN NaN
       ELSE IF m % 2 = 1 THEN [num |-> Kth(ns, (m + 1) \div 2), dsq |-> xs[1].dsq]
       ELSE [num |-> Kth(ns, m \div 2) + Kth(ns, (m \div 2) + 1), dsq |-> 4 * xs[1].dsq]

\* SimpleImputer(strategy='most_frequent').statistics_ of a text column: the most
\* frequent value, the smallest one on a tie; NA when the column is all missing.
MostFrequent(vals, voc) ==
    LET present == {v \in Range(vals) : v # NA}
        count(v) == Cardinality({i \in DOMAIN vals : vals[i] = v})
        best == {v \in present : \A w \in present : count(w) <= count(v)}
    IN IF present = {} THEN NA
       ELSE CHOOSE v \in best : \A w \in best : IndexOf(voc, v) <= IndexOf(voc, w)

\* An imputer that fills nothing in.
ImputeNothing(vals, fill, missing) == vals

\* SimpleImputer.transform on one column: every missing entry becomes fill.
Impute(vals, fill, missing) == [i \in DOMAIN vals |-> IF vals[i] = missing THEN fill ELSE vals[i]]

\* The numerator of v over the common denominator sqrt(D) of its column
\* (a median of an even count is a half and has dsq = D = 4 * the others').
Over(v, D) == IF v.dsq = D THEN v.num ELSE 2 * v.num

\* StandardScaler.fit on a column (NaN entries are left out of the statistics):
\* with p the numerators over sqrt(D), taken relative to the first one,
\* mean_ = (p0 + S/m)/sqrt(D) and var_ = V / (m^2 * D).
StandardScalerFit(column) ==
    LET vals == SelectSeq(column, LAMBDA v : ~IsNaN(v))
        D == CHOOSE d \in {vals[i].dsq : i \in DOMAIN vals} :
                 \A i \in DOMAIN vals : vals[i].dsq <= d
        p0 == Over(vals[1], D)
        ps == [i \in DOMAIN vals |-> Over(vals[i], D) - p0]
        m == Len(vals)
        S == SumSeq(ps)
        Q == SumSeq([i \in DOMAIN ps |-> ps[i] * ps[i]])
    IN [D |-> D, p0 |-> p0, m |-> m, S |-> S, V |-> (m * Q) - (S * S)]

\* StandardScaler.transform of one value: (v - mean_) / scale_, where scale_ is 1
\* for a column of zero variance; NaN stays NaN.
StandardScalerTransform(f, v) ==
    LET p == Over(v, f.D) - f.p0
    IN IF IsNaN(v) THEN NaN
       ELSE IF f.V = 0 THEN [num |-> (f.m * p) - f.S, dsq |-> f.m * f.m * f.D]
       ELSE [num |-> (f.m * p) - f.S, dsq |-> f.V]

\* OneHotEncoder.categories_ of a column: its distinct values, sorted.
Categories(vals, voc) == SelectSeq(voc, LAMBDA c : c \in Range(vals))

Zero == Num(0)
One == Num(1)

----------------------------------------------------------------------------
(* Pipeline and ColumnTransformer objects.                                  *)

RECURSIVE Flatten(_)
Flatten(ss) == IF ss = <<>> THEN <<>> ELSE Head(ss) \o Flatten(Tail(ss))

\* Pipeline([('imputer', SimpleImputer(strategy='median')), ('scaler', StandardScaler())])
NumPipeline == [steps |-> <<[name |-> "imputer", strategy |-> "median"],
                            [name |-> "scaler", strategy |-> "standard"]>>]

\* Pipeline([('imputer', SimpleImputer(strategy='most_frequent')),
\*           ('onehot', OneHotEncoder(handle_unknown='ignore'))])
CatPipeline == [steps |-> <<[name |-> "imputer", strategy |-> "most_frequent"],
                            [name |-> "onehot", strategy |-> "ignore"]>>]

NoPipeline == [steps |-> <<>>]

NoScaler == [D |-> 0, p0 |-> 0, m |-> 0, S |-> 0, V |-> 0]

\* The imputer step's notion of a missing value and its fill value.
ImputerFill(step, vals, voc) ==
    IF step.strategy = "median" THEN Median(vals) ELSE MostFrequent(vals, voc)

ImputerOut(step, vals, fill) ==
    IF step.strategy = "median" THEN Impute(vals, fill, NaN)
    ELSE Impute(vals, fill, NA)

\* An imputer discards a column that had no value at fit.
ImputerKeeps(step, fill) ==
    IF step.strategy = "median" THEN ~IsNaN(fill) ELSE fill # NA

\* Pipeline.fit on one column: the imputer's statistic, then the last step fitted
\* on the imputed column.
PipelineFit(pipe, vals, voc) ==
    LET fill == ImputerFill(pipe.steps[1], vals, voc)
        kept == ImputerKeeps(pipe.steps[1], fill)
        imputed == ImputerOut(pipe.steps[1], vals, fill)
    IN [fill |-> fill,
        kept |-> kept,
        scaler |-> IF kept /\ pipe.steps[2].name = "scaler"
                   THEN StandardScalerFit(imputed) ELSE NoScaler,
        categories |-> IF kept /\ pipe.steps[2].name = "onehot"
                       THEN Categories(imputed, voc) ELSE <<>>]

\* Pipeline.transform on one column: the output columns it yields.
PipelineTransform(pipe, f, vals) ==
    LET imputed == ImputerOut(pipe.steps[1], vals, f.fill)
    IN IF ~f.kept THEN <<>>
       ELSE IF pipe.steps[2].name = "scaler"
       THEN << [i \in DOMAIN vals |-> StandardScalerTransform(f.scaler, imputed[i])] >>
       ELSE [j \in DOMAIN f.categories |->
               [i \in DOMAIN vals |-> IF imputed[i] = f.categories[j] THEN One ELSE Zero]]

\* The names of those output columns (get_feature_names_out of the pipeline).
PipelineNames(pipe, f, c) ==
    IF ~f.kept THEN <<>>
    ELSE IF pipe.steps[2].name = "scaler" THEN <<c>>
    ELSE [j \in DOMAIN f.categories |-> c \o "_" \o f.categories[j]]

\* make_column_selector(dtype_include=...) applied to a table.
ColumnSelector(dtype_include, t) ==
    SelectSeq(t.cols, LAMBDA c : IF dtype_include = "number"
                                 THEN IsNumberDtype(t.dtype[c])
                                 ELSE t.dtype[c] = dtype_include)

\* make_column_transformer((num_pipeline, number columns), (cat_pipeline, object columns)),
\* remainder='drop'.
make_column_transformer(numPipe, catPipe) ==
    [transformers |-> <<[name |-> "pipeline-1", pipeline |-> numPipe, dtype_include |-> "number"],
                        [name |-> "pipeline-2", pipeline |-> catPipe, dtype_include |-> "object"]>>,
     fitted |-> FALSE,
     feature_names_in |-> <<>>,
     columns |-> <<>>,
     params |-> <<>>]

NoTransformer == [transformers |-> <<>>, fitted |-> FALSE, feature_names_in |-> <<>>,
                  columns |-> <<>>, params |-> <<>>]

\* ColumnTransformer.fit: each transformer is fitted on the columns its selector picks.
ColumnTransformerFit(ct, t) ==
    LET columns == [k \in DOMAIN ct.transformers |->
                      ColumnSelector(ct.transformers[k].dtype_include, t)]
    IN [ct EXCEPT
          !.fitted = TRUE,
          !.feature_names_in = t.cols,
          !.columns = columns,
          !.params = [k \in DOMAIN ct.transformers |->
                        [c \in Range(columns[k]) |->
                           PipelineFit(ct.transformers[k].pipeline, t.data[c], Vocabulary(c))]]]

\* ColumnTransformer.transform: the output columns of the transformers side by side
\* (values only).
ColumnTransformerTransform(ct, t) ==
    Flatten([k \in DOMAIN ct.transformers |->
               Flatten([j \in DOMAIN ct.columns[k] |->
                          PipelineTransform(ct.transformers[k].pipeline,
                                            ct.params[k][ct.columns[k][j]],
                                            t.data[ct.columns[k][j]])])])

\* ColumnTransformer.get_feature_names_out().
get_feature_names_out(ct) ==
    Flatten([k \in DOMAIN ct.transformers |->
               Flatten([j \in DOMAIN ct.columns[k] |->
                          LET names == PipelineNames(ct.transformers[k].pipeline,
                                                     ct.params[k][ct.columns[k][j]],
                                                     ct.columns[k][j])
                          IN [i \in DOMAIN names |-> ct.transformers[k].name \o "__" \o names[i]]])])

\* A bare matrix (the value of fit_transform): columns of values, no labels.
Matrix(columns) == [cols |-> <<>>, dtype |-> <<>>, index |-> <<>>, data |-> columns]

\* pd.DataFrame(matrix.toarray(), columns=names, index=index): all float64.
DataFrame(matrix, names, index) ==
    [cols |-> names,
     dtype |-> [c \in Range(names) |-> "float64"],
     index |-> index,
     data |-> [c \in Range(names) |-> matrix.data[IndexOf(names, c)]]]

----------------------------------------------------------------------------
(* train_test_split(test_size=0.2, random_state=42) and KFold.              *)

\* test_size = 0.2, in tenths.
TestSizeTenths == 2

random_state == 42

\* The five low bits of the successive 32-bit outputs of MT19937 seeded with 42
\* (np.random.RandomState(42)), and with 0 for any other seed; enough for tables
\* of up to 32 rows.
RandomBits(seed) ==
    IF seed = 42
    THEN << 6, 19, 28, 14, 10, 7, 28, 20, 6, 25, 18, 22, 10, 10, 23, 20,
            3, 7, 23, 2, 21, 20, 1, 23, 11, 29, 5, 1, 31, 27, 20, 0,
            11, 25, 21, 28, 11, 24, 16, 26, 26, 30, 9, 31, 27, 27, 15, 14 >>
    ELSE << 12, 15, 21, 0, 3, 27, 3, 7, 9, 19, 21, 18, 4, 23, 6, 24,
            24, 12, 26, 1, 6, 7, 23, 14, 24, 17, 5, 25, 13, 8, 9, 20,
            19, 16, 19, 5, 30, 15, 15, 0, 18, 3, 24, 17, 19, 29, 19, 19 >>

\* A generator that is not seeded (random_state=None): it may start anywhere.
StreamsUnseeded(seed) == {RandomBits(42), RandomBits(0)}

\* The generator states check_random_state(seed) can return: one for an integer seed.
Streams(seed) == {RandomBits(seed)}

\* The smallest 2^k (k >= 0) above max: mask + 1 of the legacy rejection sampler.
RECURSIVE MaskPlusOne(_, _)
MaskPlusOne(max, m) == IF m > max THEN m ELSE MaskPlusOne(max, 2 * m)

\* random_interval(max) reading the stream from position pos: the first masked
\* draw that is <= max, and the position after it.
RECURSIVE RandomInterval(_, _, _)
RandomInterval(bits, pos, max) ==
    LET v == bits[pos] % MaskPlusOne(max, 1)
    IN IF v <= max THEN <<v, pos + 1>> ELSE RandomInterval(bits, pos + 1, max)

\* RandomState.shuffle: for i = n-1 down to 1, swap a[i] and a[random_interval(i)]
\* (a holds 0-based row positions, stored at 1..n).
RECURSIVE Shuffle(_, _, _, _)
Shuffle(a, i, bits, pos) ==
    IF i < 1 THEN a
    ELSE LET d == RandomInterval(bits, pos, i)
             j == d[1]
             b == [a EXCEPT ![i + 1] = a[j + 1], ![j + 1] = a[i + 1]]
         IN Shuffle(b, i - 1, bits, d[2])

\* rng.permutation(n).
Permutation(n, bits) == Shuffle([k \in 1..n |-> k - 1], n - 1, bits, 1)

\* n_test = ceil(test_size * n).
TestSize(n) == ((TestSizeTenths * n) + 9) \div 10

\* train_test_split: the first n_test rows of the permutation are the test set,
\* the remaining ones the training set, both in permutation order.
train_test_split(t, bits) ==
    LET n == NRows(t)
        perm == Permutation(n, bits)
        n_test == TestSize(n)
    IN [train |-> TakeRows(t, [k \in 1..(n - n_test) |-> perm[n_test + k] + 1]),
        test |-> TakeRows(t, [k \in 1..n_test |-> perm[k] + 1])]

\* cv=10
cv == 10

\* KFold(n_splits).split on m rows, no shuffling: consecutive blocks, the first
\* m % n_splits of them one row longer.  Fold k's validation positions.
FoldStart(m, n_splits, k) == ((k - 1) * (m \div n_splits)) + Min(k - 1, m % n_splits)

FoldTest(m, n_splits, k) ==
    LET size == (m \div n_splits) + (IF k <= m % n_splits THEN 1 ELSE 0)
    IN [i \in 1..size |-> FoldStart(m, n_splits, k) + i]

FoldTrain(m, n_splits, k) ==
    SelectSeq([i \in 1..m |-> i], LAMBDA i : i \notin Range(FoldTest(m, n_splits, k)))

KFold(m, n_splits) ==
    [k \in 1..n_splits |-> [train |-> FoldTrain(m, n_splits, k), test |-> FoldTest(m, n_splits, k)]]

\* The smallest file the notebook runs through: its training set has a row for
\* each of the cv folds.
MinRows == CHOOSE n \in 1..(2 * cv) :
               /\ n - TestSize(n) >= cv
               /\ \A k \in 1..(n - 1) : k - TestSize(k) < cv

----------------------------------------------------------------------------
(* Estimators and model pipelines.  The regressors are library code: a      *)
(* fitted one is represented by the error, in label units, with which it    *)
(* reproduces a row's label.                                                *)

Residuals == 0..MaxResidual

Estimator(kind) == [kind |-> kind, fitted |-> FALSE, n_features_in |-> 0, resid |-> 0]

\* estimator.fit(Xt, y), leaving resid as its error.
EstimatorFit(est, Xt, y, resid) ==
    [est EXCEPT !.fitted = TRUE, !.n_features_in = Len(Xt.data), !.resid = resid]

\* estimator.predict on rows whose labels are truth.
EstimatorPredict(est, truth) ==
    [i \in DOMAIN truth |-> [num |-> truth[i].num + est.resid, dsq |-> truth[i].dsq]]

\* make_pipeline(preprocessing, estimator) / Pipeline([...]): its first step is
\* the one shared preprocessing object, its last step the estimator.
ModelPipeline(kind) ==
    [transformer |-> "preprocessing", estimator |-> Estimator(kind),
     fitted |-> FALSE, feature_names_in |-> <<>>]

NoModel == [transformer |-> "", estimator |-> Estimator(""), fitted |-> FALSE,
            feature_names_in |-> <<>>]

\* Pipeline.fit(X, y): fit_transform of the first step, then the estimator's fit.
\* Yields the fitted pipeline and the (re)fitted transformer.
ModelFit(pipe, ct, X, y, resid) ==
    LET ct2 == ColumnTransformerFit(ct, X)
        Xt == Matrix(ColumnTransformerTransform(ct2, X))
    IN [pipe |-> [pipe EXCEPT !.fitted = TRUE,
                              !.feature_names_in = X.cols,
                              !.estimator = EstimatorFit(pipe.estimator, Xt, y, resid)],
        ct |-> ct2]

\* Pipeline.predict(X).
ModelPredict(pipe, truth) == EstimatorPredict(pipe.estimator, truth)

\* A Series: row labels and values.
NoSeries == [index |-> <<>>, values |-> <<>>]

\* root_mean_squared_error(y_true, y_pred) = sqrt(sse / (n * dsq)).
NoRmse == [sse |-> 0, n |-> 0, dsq |-> 0]

root_mean_squared_error(y_true, y_pred) ==
    [sse |-> SumSeq([i \in DOMAIN y_true |->
                       (y_pred[i].num - y_true[i].num) * (y_pred[i].num - y_true[i].num)]),
     n |-> Len(y_true),
     dsq |-> y_true[1].dsq]

\* sklearn.base.clone of a transformer: same parameters, nothing fitted.
Clone(ct) == [ct EXCEPT !.fitted = FALSE, !.feature_names_in = <<>>,
                        !.columns = <<>>, !.params = <<>>]

\* a <= b as real numbers.
RmseLeq(a, b) == a.sse * b.n * b.dsq <= b.sse * a.n * a.dsq

\* cross_val_score(estimator, X, y, scoring="neg_root_mean_squared_error", cv),
\* negated: per fold a clone is fitted on the fold's training rows and scored on
\* its validation rows.
cross_val_score(pipe, ct, X, y, n_splits, resid) ==
    LET folds == KFold(NRows(X), n_splits)
    IN [k \in DOMAIN folds |->
          LET fit == ModelFit(pipe, Clone(ct), TakeRows(X, folds[k].train),
                              [i \in DOMAIN folds[k].train |-> y[folds[k].train[i]]], resid)
              truth == [i \in DOMAIN folds[k].test |-> y[folds[k].test[i]]]
          IN root_mean_squared_error(truth, ModelPredict(fit.pipe, truth))]

----------------------------------------------------------------------------
(* The notebook: its code cells in file order, one action each.             *)

\* The notebook with the linear model scored only after the tree cell has run.
CellOrderLateScore == << "load", "info", "date_drop", "pipelines", "column_transformer",
                         "fit_transform", "dataframe", "split", "lin_fit", "tree",
                         "lin_rmse", "cross_val", "forest", "dump" >>

CellOrder == << "load", "info", "date_drop", "pipelines", "column_transformer",
                "fit_transform", "dataframe", "split", "lin_fit", "lin_rmse",
                "tree", "cross_val", "forest", "dump" >>

\* The name of the target column in the prepared table.
TargetColumn == "pipeline-1__injuries_total"

\* The last cell handing the decision tree pipeline to joblib.dump instead.
DumpedObjectTree == "tree_reg"

\* The object the last cell hands to joblib.dump.
DumpedObject == "full_pipeline"

\* A run that leaves out the cell below the linear fit.
NextCellSkip(i) == IF i = 9 THEN i + 2 ELSE i + 1

\* After a cell, the kernel runs the cell below it.
NextCell(i) == i + 1

Done == pc > Len(CellOrder)

\* Running cell: it is the next one, and the kernel logs it.
Run(cell) ==
    /\ pc \in DOMAIN CellOrder
    /\ CellOrder[pc] = cell
    /\ pc' = NextCell(pc)
    /\ history' = Append(history, cell)

Call(fn, obj, X, y) ==
    [fn |-> fn, obj |-> obj, cols |-> X.cols, index |-> X.index, y |-> y]

\* The defects of a file of n rows: none, or one defective cell in its first or
\* in its last row.
Defects(n) == {{}} \cup {{[row |-> p, kind |-> k]} : p \in {1, n}, k \in DefectKinds}

\* The files the notebook may find on disk.
CsvFiles == UNION {{CsvFile(n, ds) : ds \in Defects(n)} : n \in MinRows..MaxRows}

Init ==
    /\ csv \in CsvFiles
    /\ pc = 1
    /\ history = <<>>
    /\ calls = <<>>
    /\ accidentsData = NoTable
    /\ num_pipeline = NoPipeline
    /\ cat_pipeline = NoPipeline
    /\ preprocessing = NoTransformer
    /\ accidentsData_prepared = NoTable
    /\ train_set = NoTable
    /\ test_set = NoTable
    /\ accidentsTrain = NoTable
    /\ accidentsTrain_labels = NoSeries
    /\ lin_reg = NoModel
    /\ predictions = <<>>
    /\ lin_rmse = NoRmse
    /\ tree_reg = NoModel
    /\ tree_rmse = NoRmse
    /\ tree_rmses = <<>>
    /\ full_pipeline = NoModel
    /\ predictions_rf = <<>>
    /\ rmse_rf = NoRmse
    /\ pkl = [written |-> FALSE, object |-> "", pipeline |-> NoModel, transformer |-> NoTransformer]

\* accidentsData = loadData()
Load ==
    /\ Run("load")
    /\ accidentsData' = loadData(csv)
    /\ UNCHANGED <<csv, calls, num_pipeline, cat_pipeline, preprocessing,
                   accidentsData_prepared, train_set, test_set, accidentsTrain,
                   accidentsTrain_labels, lin_reg, predictions, lin_rmse, tree_reg,
                   tree_rmse, tree_rmses, full_pipeline, predictions_rf, rmse_rf, pkl>>

\* accidentsData.info(): prints, changes nothing.
Info ==
    /\ Run("info")
    /\ UNCHANGED <<csv, calls, accidentsData, num_pipeline, cat_pipeline, preprocessing,
                   accidentsData_prepared, train_set, test_set, accidentsTrain,
                   accidentsTrain_labels, lin_reg, predictions, lin_rmse, tree_reg,
                   tree_rmse, tree_rmses, full_pipeline, predictions_rf, rmse_rf, pkl>>

\* Date transformation and column drop.
DateDrop ==
    /\ Run("date_drop")
    /\ accidentsData' = DateTransformAndDrop(accidentsData)
    /\ UNCHANGED <<csv, calls, num_pipeline, cat_pipeline, preprocessing,
                   accidentsData_prepared, train_set, test_set, accidentsTrain,
                   accidentsTrain_labels, lin_reg, predictions, lin_rmse, tree_reg,
                   tree_rmse, tree_rmses, full_pipeline, predictions_rf, rmse_rf, pkl>>

\* num_pipeline = Pipeline([...]); cat_pipeline = Pipeline([...])
Pipelines ==
    /\ Run("pipelines")
    /\ num_pipeline' = NumPipeline
    /\ cat_pipeline' = CatPipeline
    /\ UNCHANGED <<csv, calls, accidentsData, preprocessing,
                   accidentsData_prepared, train_set, test_set, accidentsTrain,
                   accidentsTrain_labels, lin_reg, predictions, lin_rmse, tree_reg,
                   tree_rmse, tree_rmses, full_pipeline, predictions_rf, rmse_rf, pkl>>

\* preprocessing = make_column_transformer(...)
MakeColumnTransformer ==
    /\ Run("column_transformer")
    /\ preprocessing' = make_column_transformer(num_pipeline, cat_pipeline)
    /\ UNCHANGED <<csv, calls, accidentsData, num_pipeline, cat_pipeline,
                   accidentsData_prepared, train_set, test_set, accidentsTrain,
                   accidentsTrain_labels, lin_reg, predictions, lin_rmse, tree_reg,
                   tree_rmse, tree_rmses, full_pipeline, predictions_rf, rmse_rf, pkl>>

\* accidentsData_prepared = preprocessing.fit_transform(accidentsData)
FitTransform ==
    /\ Run("fit_transform")
    /\ preprocessing' = ColumnTransformerFit(preprocessing, accidentsData)
    /\ accidentsData_prepared' = Matrix(ColumnTransformerTransform(preprocessing', accidentsData))
    /\ calls' = Append(calls, Call("fit_transform", "preprocessing", accidentsData, <<>>))
    /\ UNCHANGED <<csv, accidentsData, num_pipeline, cat_pipeline,
                   train_set, test_set, accidentsTrain,
                   accidentsTrain_labels, lin_reg, predictions, lin_rmse, tree_reg,
                   tree_rmse, tree_rmses, full_pipeline, predictions_rf, rmse_rf, pkl>>

\* accidentsData_prepared = pd.DataFrame(accidentsData_prepared.toarray(),
\*     columns=preprocessing.get_feature_names_out(), index=accidentsData.index)
WrapDataFrame ==
    /\ Run("dataframe")
    /\ accidentsData_prepared' = DataFrame(accidentsData_prepared,
                                           get_feature_names_out(preprocessing),
                                           accidentsData.index)
    /\ UNCHANGED <<csv, calls, accidentsData, num_pipeline, cat_pipeline, preprocessing,
                   train_set, test_set, accidentsTrain,
                   accidentsTrain_labels, lin_reg, predictions, lin_rmse, tree_reg,
                   tree_rmse, tree_rmses, full_pipeline, predictions_rf, rmse_rf, pkl>>

\* The labels the split cell takes: train_set[target].copy().
TrainLabels(train) == [index |-> train.index, values |-> train.data[TargetColumn]]

\* The features taken without dropping the target.
TrainFeaturesKeepTarget(train) == train

\* The features the split cell takes: train_set.drop(target, axis=1).
TrainFeatures(train) == DropColumns(train, {TargetColumn})

\* train_set, test_set = train_test_split(...); accidentsTrain, accidentsTrain_labels.
Split ==
    /\ Run("split")
    /\ \E bits \in Streams(random_state) :
         /\ train_set' = train_test_split(accidentsData_prepared, bits).train
         /\ test_set' = train_test_split(accidentsData_prepared, bits).test
    /\ accidentsTrain' = TrainFeatures(train_set')
    /\ accidentsTrain_labels' = TrainLabels(train_set')
    /\ UNCHANGED <<csv, calls, accidentsData, num_pipeline, cat_pipeline, preprocessing,
                   accidentsData_prepared,
                   lin_reg, predictions, lin_rmse, tree_reg,
                   tree_rmse, tree_rmses, full_pipeline, predictions_rf, rmse_rf, pkl>>

\* lin_reg = make_pipeline(preprocessing, LinearRegression()); fit; predict.
LinFit ==
    /\ Run("lin_fit")
    /\ \E resid \in Residuals :
         LET fit == ModelFit(ModelPipeline("LinearRegression"), preprocessing,
                             accidentsTrain, accidentsTrain_labels.values, resid)
         IN /\ lin_reg' = fit.pipe
            /\ preprocessing' = fit.ct
            /\ predictions' = ModelPredict(fit.pipe, accidentsTrain_labels.values)
    /\ calls' = calls \o << Call("fit", "lin_reg", accidentsTrain, accidentsTrain_labels),
                            Call("predict", "lin_reg", accidentsTrain, NoSeries) >>
    /\ UNCHANGED <<csv, accidentsData, num_pipeline, cat_pipeline,
                   accidentsData_prepared, train_set, test_set, accidentsTrain,
                   accidentsTrain_labels, lin_rmse, tree_reg,
                   tree_rmse, tree_rmses, full_pipeline, predictions_rf, rmse_rf, pkl>>

\* lin_rmse = root_mean_squared_error(accidentsTrain_labels, predictions)
LinRmse ==
    /\ Run("lin_rmse")
    /\ lin_rmse' = root_mean_squared_error(accidentsTrain_labels.values, predictions)
    /\ UNCHANGED <<csv, calls, accidentsData, num_pipeline, cat_pipeline, preprocessing,
                   accidentsData_prepared, train_set, test_set, accidentsTrain,
                   accidentsTrain_labels, lin_reg, predictions, tree_reg,
                   tree_rmse, tree_rmses, full_pipeline, predictions_rf, rmse_rf, pkl>>

\* tree_reg = make_pipeline(preprocessing, DecisionTreeRegressor(random_state=42));
\* fit; predictions = tree_reg.predict(...); tree_rmse.
Tree ==
    /\ Run("tree")
    /\ \E resid \in Residuals :
         LET fit == ModelFit(ModelPipeline("DecisionTreeRegressor"), preprocessing,
                             accidentsTrain, accidentsTrain_labels.values, resid)
         IN /\ tree_reg' = fit.pipe
            /\ preprocessing' = fit.ct
            /\ predictions' = ModelPredict(fit.pipe, accidentsTrain_labels.values)
    /\ tree_rmse' = root_mean_squared_error(accidentsTrain_labels.values, predictions')
    /\ calls' = calls \o << Call("fit", "tree_reg", accidentsTrain, accidentsTrain_labels),
                            Call("predict", "tree_reg", accidentsTrain, NoSeries) >>
    /\ UNCHANGED <<csv, accidentsData, num_pipeline, cat_pipeline,
                   accidentsData_prepared, train_set, test_set, accidentsTrain,
                   accidentsTrain_labels, lin_reg, lin_rmse,
                   tree_rmses, full_pipeline, predictions_rf, rmse_rf, pkl>>

\* tree_rmses = -cross_val_score(tree_reg, accidentsTrain, accidentsTrain_labels, ..., cv=10)
CrossVal ==
    /\ Run("cross_val")
    /\ \E resid \in Residuals :
         tree_rmses' = cross_val_score(tree_reg, preprocessing, accidentsTrain,
                                       accidentsTrain_labels.values, cv, resid)
    /\ calls' = Append(calls, Call("cross_val_score", "tree_reg", accidentsTrain,
                                   accidentsTrain_labels))
    /\ UNCHANGED <<csv, accidentsData, num_pipeline, cat_pipeline, preprocessing,
                   accidentsData_prepared, train_set, test_set, accidentsTrain,
                   accidentsTrain_labels, lin_reg, predictions, lin_rmse, tree_reg,
                   tree_rmse, full_pipeline, predictions_rf, rmse_rf, pkl>>

\* full_pipeline = Pipeline([("preprocessing", preprocessing), ("random_forest", ...)]);
\* fit; predictions_rf; rmse_rf.
Forest ==
    /\ Run("forest")
    /\ \E resid \in Residuals :
         LET fit == ModelFit(ModelPipeline("RandomForestRegressor"), preprocessing,
                             accidentsTrain, accidentsTrain_labels.values, resid)
         IN /\ full_pipeline' = fit.pipe
            /\ preprocessing' = fit.ct
            /\ predictions_rf' = ModelPredict(fit.pipe, accidentsTrain_labels.values)
    /\ rmse_rf' = root_mean_squared_error(accidentsTrain_labels.values, predictions_rf')
    /\ calls' = calls \o << Call("fit", "full_pipeline", accidentsTrain, accidentsTrain_labels),
                            Call("predict", "full_pipeline", accidentsTrain, NoSeries) >>
    /\ UNCHANGED <<csv, accidentsData, num_pipeline, cat_pipeline,
                   accidentsData_prepared, train_set, test_set, accidentsTrain,
                   accidentsTrain_labels, lin_reg, predictions, lin_rmse, tree_reg,
                   tree_rmse, tree_rmses, pkl>>

\* The pipeline a notebook name is bound to.
ObjectNamed(name) ==
    CASE name = "lin_reg" -> lin_reg
      [] name = "tree_reg" -> tree_reg
      [] OTHER -> full_pipeline

\* joblib.dump(full_pipeline, "Traffic_Accident_Injury_Predictor_Model.pkl"):
\* the pipeline is pickled with the transformer it holds.
Dump ==
    /\ Run("dump")
    /\ pkl' = [written |-> TRUE, object |-> DumpedObject,
               pipeline |-> ObjectNamed(DumpedObject), transformer |-> preprocessing]
    /\ calls' = Append(calls, Call("dump", DumpedObject, NoTable, NoSeries))
    /\ UNCHANGED <<csv, accidentsData, num_pipeline, cat_pipeline, preprocessing,
                   accidentsData_prepared, train_set, test_set, accidentsTrain,
                   accidentsTrain_labels, lin_reg, predictions, lin_rmse, tree_reg,
                   tree_rmse, tree_rmses, full_pipeline, predictions_rf, rmse_rf>>

Next ==
    \/ Load
    \/ Info
    \/ DateDrop
    \/ Pipelines
    \/ MakeColumnTransformer
    \/ FitTransform
    \/ WrapDataFrame
    \/ Split
    \/ LinFit
    \/ LinRmse
    \/ Tree
    \/ CrossVal
    \/ Forest
    \/ Dump

Spec == Init /\ [][Next]_vars

\* The kernel runs the queued cells one after the other until none is left: while
\* a cell is queued, the step to the cell below it is eventually taken.
RunNextCell == ~Done /\ pc' = NextCell(pc)

FairSpec == Spec /\ WF_pc(RunNextCell)

----------------------------------------------------------------------------
(* Properties.                                                              *)

Executed(cell) == \E i \in DOMAIN history : history[i] = cell

Models == {"lin_reg", "tree_reg", "full_pipeline"}

IsPrefix(a, b) == Len(a) <= Len(b) /\ \A i \in DOMAIN a : a[i] = b[i]

\* The position in table t of the row labelled idx.
RowOf(t, idx) == IndexOf(t.index, idx)

RmseOfKind(kind) ==
    CASE kind = "LinearRegression" -> lin_rmse
      [] kind = "DecisionTreeRegressor" -> tree_rmse
      [] OTHER -> rmse_rf

\* C1 (as claimed): the pipeline written to disk is the one whose RMSE is the
\* lowest of lin_rmse, tree_rmse and rmse_rf.
C1_DumpedHasLowestRmse ==
    pkl.written =>
        LET r == RmseOfKind(pkl.pipeline.estimator.kind)
        IN RmseLeq(r, lin_rmse) /\ RmseLeq(r, tree_rmse) /\ RmseLeq(r, rmse_rf)

\* C1 (amended): the pipeline written to disk is always full_pipeline, the fitted
\* random forest pipeline, whatever the three RMSE values are.
C1_DumpedIsRandomForest ==
    pkl.written =>
        /\ pkl.object = "full_pipeline"
        /\ pkl.pipeline = full_pipeline
        /\ pkl.pipeline.fitted
        /\ pkl.pipeline.estimator.kind = "RandomForestRegressor"

\* The file is written although the forest's RMSE is above the tree's.
C1_Witness == pkl.written /\ ~RmseLeq(rmse_rf, tree_rmse)

\* C2: the label given to fit() for each training row is that row's
\* injuries_total as loaded.
C2_LabelsAreInjuryCounts ==
    \A i \in DOMAIN calls :
        calls[i].fn = "fit" /\ calls[i].obj \in Models =>
            \A k \in DOMAIN calls[i].y.values :
                SameNumber(calls[i].y.values[k],
                           accidentsData.data["injuries_total"][RowOf(accidentsData, calls[i].y.index[k])])

\* C3: the saved pipeline was fitted on the raw feature columns (the table after
\* the date transformation and column drop, without the target), and its
\* preprocessing stage routes their numeric columns to imputation/scaling and
\* their text columns to imputation/one-hot encoding.
C3_SavedPipelineTakesRawTable ==
    pkl.written =>
        LET raw == DropColumns(accidentsData, {"injuries_total"})
        IN /\ pkl.pipeline.feature_names_in = raw.cols
           /\ pkl.transformer.feature_names_in = raw.cols
           /\ pkl.transformer.columns[1] = ColumnSelector("number", raw)
           /\ pkl.transformer.columns[2] = ColumnSelector("object", raw)

\* Every row of m rows is validated in exactly one of the folds and fitted on in
\* all the others.
FoldsPartition(m, folds) ==
    \A p \in 1..m :
        /\ Cardinality({k \in DOMAIN folds : p \in Range(folds[k].test)}) = 1
        /\ \A k \in DOMAIN folds : (p \in Range(folds[k].train)) = (p \notin Range(folds[k].test))

\* C4: each of the three pipelines is scored by 10-fold cross-validation on the
\* training set, every training row validated in exactly one fold.
C4_AllThreeCrossValidated ==
    Done =>
        \A m \in Models :
            \E i \in DOMAIN calls :
                /\ calls[i].fn = "cross_val_score"
                /\ calls[i].obj = m
                /\ calls[i].index = accidentsTrain.index
                /\ Len(KFold(Len(calls[i].index), cv)) = 10
                /\ FoldsPartition(Len(calls[i].index), KFold(Len(calls[i].index), cv))

\* The steps the run is said to consist of, in order.
ClaimedSteps == << "load", "date_drop", "fit_transform", "split", "lin_fit", "lin_rmse",
                   "tree", "cross_val", "forest", "dump" >>

StepsRun == SelectSeq(history, LAMBDA c : c \in Range(ClaimedSteps))

PredictAfterFit ==
    \A i \in DOMAIN calls :
        calls[i].fn = "predict" =>
            \E j \in 1..(i - 1) : calls[j].fn = "fit" /\ calls[j].obj = calls[i].obj

DumpAfterFit ==
    /\ pkl.written => full_pipeline.fitted
    /\ \A i \in DOMAIN calls :
           calls[i].fn = "dump" =>
               \E j \in 1..(i - 1) : calls[j].fn = "fit" /\ calls[j].obj = "full_pipeline"

C5_Safety ==
    /\ IsPrefix(StepsRun, ClaimedSteps)
    /\ Done => StepsRun = ClaimedSteps
    /\ PredictAfterFit
    /\ DumpAfterFit

FittedOn == IF preprocessing.feature_names_in = accidentsData.cols
            THEN accidentsData ELSE accidentsTrain

\* The steps of the pipeline that handles column c, when exactly one does.
RoutedTo(c) ==
    LET ks == {k \in DOMAIN preprocessing.columns : c \in Range(preprocessing.columns[k])}
    IN IF Cardinality(ks) = 1
       THEN LET k == CHOOSE k \in ks : TRUE
                steps == preprocessing.transformers[k].pipeline.steps
            IN <<steps[1].strategy, steps[2].name>>
       ELSE <<>>

\* A scaled column has mean 0 and, unless constant, variance 1.
Standardised(col) ==
    LET nums == [i \in DOMAIN col |-> col[i].num]
        sq == SumSeq([i \in DOMAIN col |-> col[i].num * col[i].num])
    IN /\ SumSeq(nums) = 0
       /\ \A i \in DOMAIN col : col[i].dsq = col[1].dsq
       /\ sq = 0 \/ sq = Len(col) * col[1].dsq

\* Every row has a 1 in exactly one of the columns encoding a text column.
OneHot(colsOut, n) ==
    \A i \in 1..n :
        /\ \A j \in DOMAIN colsOut : colsOut[j][i] \in {Zero, One}
        /\ Cardinality({j \in DOMAIN colsOut : colsOut[j][i] = One}) = 1

\* C6: every numeric column goes through median imputation then standard scaling,
\* every text column through most-frequent imputation then one-hot encoding, none
\* through both, and no missing value is left in the output.
C6_ColumnRouting ==
    preprocessing.fitted =>
        LET t == FittedOn
            out(c) == LET k == CHOOSE k \in DOMAIN preprocessing.columns :
                                   c \in Range(preprocessing.columns[k])
                      IN PipelineTransform(preprocessing.transformers[k].pipeline,
                                           preprocessing.params[k][c], t.data[c])
        IN /\ \A c \in Range(t.cols) :
                LET o == out(c)
                IN /\ IsNumberDtype(t.dtype[c]) =>
                          /\ RoutedTo(c) = <<"median", "scaler">>
                          /\ Len(o) = 1
                          /\ Standardised(o[1])
                   /\ t.dtype[c] = "object" =>
                          /\ RoutedTo(c) = <<"most_frequent", "onehot">>
                          /\ OneHot(o, NRows(t))
                   /\ \A j \in DOMAIN o : \A i \in DOMAIN o[j] : ~IsNaN(o[j][i])
           /\ \A k1, k2 \in DOMAIN preprocessing.columns :
                k1 # k2 => Range(preprocessing.columns[k1]) \cap Range(preprocessing.columns[k2]) = {}

\* The transformer is fitted on a table that has a missing number or a missing text.
C6_Witness ==
    /\ preprocessing.fitted
    /\ FittedOn = accidentsData
    /\ \E c \in Range(accidentsData.cols) : \E i \in DOMAIN accidentsData.data[c] :
          IF IsNumberDtype(accidentsData.dtype[c]) THEN IsNaN(accidentsData.data[c][i])
          ELSE accidentsData.data[c][i] = NA

\* C7: train_set and test_set are disjoint and together hold every row once, the
\* test set has ceil(0.2 * n) rows, and with random_state fixed the split has a
\* single possible outcome.
C7_SplitPartition ==
    Executed("split") =>
        LET all == accidentsData_prepared
            n == NRows(all)
            tr == train_set.index
            te == test_set.index
        IN /\ Range(tr) \cap Range(te) = {}
           /\ Range(tr) \cup Range(te) = Range(all.index)
           /\ Len(tr) + Len(te) = n
           /\ 5 * Len(te) >= n /\ 5 * (Len(te) - 1) < n
           /\ \A k \in DOMAIN tr : \A c \in Range(all.cols) :
                  train_set.data[c][k] = all.data[c][RowOf(all, tr[k])]
           /\ \A k \in DOMAIN te : \A c \in Range(all.cols) :
                  test_set.data[c][k] = all.data[c][RowOf(all, te[k])]
           /\ Cardinality({train_test_split(all, bits).test.index : bits \in Streams(random_state)}) = 1
           /\ Cardinality({train_test_split(all, bits).train.index : bits \in Streams(random_state)}) = 1

\* The split is done on a table whose size is no multiple of five.
C7_Witness == Executed("split") /\ NRows(accidentsData_prepared) % 5 # 0 /\ NRows(test_set) > 0

\* The columns derived from injuries, other than the target.
InjuryColumns == {"injuries_fatal", "injuries_incapacitating", "injuries_non_incapacitating",
                  "injuries_reported_not_evident", "injuries_no_indication",
                  "most_severe_injury"}

\* C8: after the column drop the table holds no injury-derived column other than
\* injuries_total.
C8_NoOtherInjuryColumns ==
    Executed("date_drop") => Range(accidentsData.cols) \cap InjuryColumns = {}

\* The names under which the target can appear in a table.
TargetForms == {"injuries_total"} \cup
               {preprocessing.transformers[k].name \o "__injuries_total" :
                    k \in DOMAIN preprocessing.transformers}

\* C9: the feature table given to fit, predict and cross_val_score never holds the
\* target, and accidentsTrain_labels has one label per feature row, on the same
\* index in the same order.
C9_TargetSeparation ==
    /\ \A i \in DOMAIN calls :
           calls[i].obj \in Models /\ calls[i].fn \in {"fit", "predict", "cross_val_score"} =>
               /\ Range(calls[i].cols) \cap TargetForms = {}
               /\ calls[i].cols = accidentsTrain.cols
               /\ calls[i].index = accidentsTrain.index
    /\ Executed("split") =>
           /\ Range(accidentsTrain.cols) \cap TargetForms = {}
           /\ accidentsTrain_labels.index = accidentsTrain.index
           /\ Len(accidentsTrain_labels.values) = NRows(accidentsTrain)
           /\ \A k \in DOMAIN accidentsTrain_labels.values :
                  accidentsTrain_labels.values[k] =
                      accidentsData_prepared.data[TargetColumn][RowOf(accidentsData_prepared,
                                                                      accidentsTrain.index[k])]

\* All three models have been fitted and used on the feature table.
C9_Witness ==
    \A m \in Models : \E i \in DOMAIN calls : calls[i].obj = m /\ calls[i].fn = "predict"

\* C10: each RMSE is the one between the labels and the predictions of the model
\* it is named for.
C10_RmseFromOwnModel ==
    LET y == accidentsTrain_labels.values
    IN /\ lin_rmse.n > 0 => lin_rmse = root_mean_squared_error(y, ModelPredict(lin_reg, y))
       /\ tree_rmse.n > 0 => tree_rmse = root_mean_squared_error(y, ModelPredict(tree_reg, y))
       /\ rmse_rf.n > 0 => rmse_rf = root_mean_squared_error(y, ModelPredict(full_pipeline, y))

\* The tree cell has overwritten predictions with different values, and all three
\* RMSE values are computed.
C10_Witness ==
    /\ lin_rmse.n > 0 /\ tree_rmse.n > 0 /\ rmse_rf.n > 0
    /\ predictions = ModelPredict(tree_reg, accidentsTrain_labels.values)
    /\ predictions # ModelPredict(lin_reg, accidentsTrain_labels.values)

====
